---- MODULE Spec2Model ----
(***************************************************************************)
(* Model of the polyx-pulse backend: the in-memory token store (addToken,  *)
(* cleanupOldTokens), the PumpPortal WebSocket connector with its bounded  *)
(* reconnect budget, the Moralis poller, the image enrichment of the       *)
(* README revision of the message handler, and the recency query.         *)
(*                                                                         *)
(* src/README.md carries a later revision of src/index.ts: the same code   *)
(* with, in the message handler, the placeholder logo and the metadata     *)
(* fetch that patches the logo.  The message handler is modelled from that *)
(* revision, everything else is the same in both.                          *)
(*                                                                         *)
(* Four specifications: SpecStore runs the store's producers and readers   *)
(* against an open socket, SpecConn runs the connector's state machine,    *)
(* SpecFeed runs one connection with its frames, its failure and the       *)
(* retries that follow, together with the liveness query, and SpecPoll     *)
(* runs the poller with every outcome of its request.                      *)
(*                                                                         *)
(* Values.  Strings of the program are strings here; the JavaScript value  *)
(* undefined of a string-typed field is the sentinel Undefined, and of a   *)
(* number-typed field the sentinel NoNumber.  Times are milliseconds.      *)
(* Prices are in millionths of a dollar, vSolInBondingCurve in tenths of a *)
(* SOL, so that the inputs used stay integers.                             *)
(***************************************************************************)
EXTENDS Integers, Sequences, FiniteSets, TLC

\* ---------------------------------------------------------------- bounds
\* Capacity of the store.  The source sets 100; the model runs the same
\* code with a small capacity so that overflow is reached.
MAX_TOKENS == 2
\* Clock steps taken in one behaviour.
MaxTicks == 2
\* Metadata fetches in flight at once.
MaxInFlight == 1
\* Items in one Moralis response.
MaxBatch == 2
\* Successful opens in one behaviour of the connector specification.
MaxOpens == 2

\* ------------------------------------------------------ program constants
MAX_AGE_MS == 5 * 60 * 1000
MAX_RECONNECT_ATTEMPTS == 10
RECONNECT_DELAY == 5000

Undefined == "undefined"
NoNumber == -1

\* ----------------------------------------------------------------- state
VARIABLES
    tokens,             \* let tokens: Token[]
    now,                \* Date.now()
    wsState,            \* "null" when ws = null, else ws.readyState
    reconnectAttempts,  \* let reconnectAttempts
    timers,             \* due times of the pending setTimeout(connectToPumpPortal, ...)
    pending,            \* metadata fetches in flight (README revision)
    resp,               \* body of the HTTP response written in this step
    recent,             \* history: ids upserted since the last sweep, latest first
    closes,             \* history: close events since the last open
    scheduled,          \* history: reconnects scheduled since the last open
    opens,              \* history: open events so far
    sent,               \* history: subscription frames sent on the socket ws refers to
    dropped,            \* history: the handler run in this step discarded its input
    polling             \* the interval timer of the poller is armed

vars == <<tokens, now, wsState, reconnectAttempts, timers, pending,
          resp, recent, closes, scheduled, opens, sent, dropped, polling>>

storeVars == <<tokens, pending, recent, polling>>
connVars == <<wsState, reconnectAttempts, timers, closes, scheduled, opens, sent>>

\* --------------------------------------------------------------- helpers
Min(a, b) == IF a < b THEN a ELSE b

\* Array.prototype.slice(0, n) for n >= 0 and for n < 0 (counted from the end)
Slice0(s, n) ==
    LET end == IF n < 0 THEN (IF Len(s) + n < 0 THEN 0 ELSE Len(s) + n)
               ELSE Min(n, Len(s))
    IN  SubSeq(s, 1, end)

\* JavaScript truthiness of a string-typed and of a number-typed value
Truthy(v) == v /= Undefined /\ v /= ""
TruthyNum(n) == n /= NoNumber /\ n /= 0

\* a || b
OrElse(a, b) == IF Truthy(a) THEN a ELSE b

NoResp == [kind |-> "none"]

\* ------------------------------------------------------------- the store
\* interface Token
Token(address, symbol, name, logo, price, marketCap, bondingProgress, createdAt, fetchedAt) ==
    [address |-> address, symbol |-> symbol, name |-> name, logo |-> logo,
     price |-> price, marketCap |-> marketCap, bondingProgress |-> bondingProgress,
     createdAt |-> createdAt, fetchedAt |-> fetchedAt]

Ids(s) == [i \in DOMAIN s |-> s[i].address]
HasId(s, a) == \E i \in DOMAIN s : s[i].address = a

\* cleanupOldTokens with the comparison turned round
cleanupOldTokensInverted(s, t) ==
    LET cutoff == t - MAX_AGE_MS
    IN  SelectSeq(s, LAMBDA x : x.fetchedAt < cutoff)

\* cleanupOldTokens keeping the entry at the cutoff
cleanupOldTokensInclusive(s, t) ==
    LET cutoff == t - MAX_AGE_MS
    IN  SelectSeq(s, LAMBDA x : x.fetchedAt >= cutoff)

\* function cleanupOldTokens(), with Date.now() = t
cleanupOldTokens(s, t) ==
    LET cutoff == t - MAX_AGE_MS
    IN  SelectSeq(s, LAMBDA x : x.fetchedAt > cutoff)

\* addToken without the removal of duplicates
addTokenNoDedup(s, token) ==
    LET unshifted == <<token>> \o s
    IN  IF Len(unshifted) > MAX_TOKENS THEN Slice0(unshifted, MAX_TOKENS) ELSE unshifted

\* addToken cutting one entry too late
addTokenOffByOne(s, token) ==
    LET deduped == SelectSeq(s, LAMBDA x : x.address /= token.address)
        unshifted == <<token>> \o deduped
    IN  IF Len(unshifted) > MAX_TOKENS + 1 THEN Slice0(unshifted, MAX_TOKENS + 1) ELSE unshifted

\* addToken with push in place of unshift
addTokenPush(s, token) ==
    LET deduped == SelectSeq(s, LAMBDA x : x.address /= token.address)
        pushed == Append(deduped, token)
    IN  IF Len(pushed) > MAX_TOKENS THEN Slice0(pushed, MAX_TOKENS) ELSE pushed

\* addToken with slice(-MAX_TOKENS): it keeps the tail
addTokenKeepTail(s, token) ==
    LET deduped == SelectSeq(s, LAMBDA x : x.address /= token.address)
        unshifted == <<token>> \o deduped
    IN  IF Len(unshifted) > MAX_TOKENS
        THEN SubSeq(unshifted, Len(unshifted) - MAX_TOKENS + 1, Len(unshifted))
        ELSE unshifted

\* function addToken(token)
addToken(s, token) ==
    LET deduped == SelectSeq(s, LAMBDA x : x.address /= token.address)
        unshifted == <<token>> \o deduped
    IN  IF Len(unshifted) > MAX_TOKENS THEN Slice0(unshifted, MAX_TOKENS) ELSE unshifted

\* a loop of addToken calls, in order
RECURSIVE AddAll(_, _)
AddAll(s, toks) ==
    IF toks = <<>> THEN s ELSE AddAll(addToken(s, Head(toks)), Tail(toks))

\* history: the ids upserted since the last sweep, latest first, without
\* repetition, cut after MAX_TOKENS + 1 (enough to tell the MAX_TOKENS latest
\* ids and whether more than MAX_TOKENS distinct ids were upserted)
RECURSIVE NoteAll(_, _)
NoteAll(r, toks) ==
    IF toks = <<>> THEN r
    ELSE LET a == Head(toks).address
             moved == <<a>> \o SelectSeq(r, LAMBDA x : x /= a)
         IN  NoteAll(Slice0(moved, MAX_TOKENS + 1), Tail(toks))

\* a metadata fetch in flight is stale once the entry it was issued for has
\* been replaced by an upsert of the same id or has left the store
Restale(pend, upserted, new) ==
    { [address |-> p.address,
       stale |-> p.stale \/ p.address \in upserted \/ ~HasId(new, p.address)] : p \in pend }

\* -------------------------------------------------------------- the clock
\* The times at which the handlers run are 0, 1, 1 + MAX_AGE_MS,
\* 1 + 2 * MAX_AGE_MS, ...: an entry of time 0 is older than the window at the
\* third, an entry of time 1 is exactly MAX_AGE_MS old, an entry of the third
\* is new.
TickStep(t) == IF t = 0 THEN 1 ELSE MAX_AGE_MS
TickCount(t) == IF t = 0 THEN 0 ELSE 1 + (t \div MAX_AGE_MS)

Tick ==
    /\ TickCount(now) < MaxTicks
    /\ now' = now + TickStep(now)
    /\ resp' = NoResp
    /\ dropped' = FALSE
    /\ UNCHANGED <<storeVars, connVars>>

\* ------------------------------------------------------ the stream handler
AllMints == <<"m1", "m2", "m3", "m4", "m5", "m6">>
Mints == { AllMints[i] : i \in 1..MAX_TOKENS }

Message(json, txType, mint, symbol, name, uri, marketCapSol, vSolInBondingCurve) ==
    [json |-> json, txType |-> txType, mint |-> mint, symbol |-> symbol,
     name |-> name, uri |-> uri, marketCapSol |-> marketCapSol,
     vSolInBondingCurve |-> vSolInBondingCurve]

\* the feed's frames: not JSON, another event type, no event type, a create
\* without a mint or with an empty one, a create for m1 with all the optional
\* fields and a create for every other mint without them
Messages ==
    { Message(FALSE, Undefined, Undefined, Undefined, Undefined, Undefined, NoNumber, NoNumber),
      Message(TRUE, "buy", "m1", "FOO", "Foo", Undefined, 10, 425),
      Message(TRUE, Undefined, "m1", "FOO", "Foo", Undefined, 10, 425),
      Message(TRUE, "create", Undefined, "FOO", "Foo", "ipfs://abc123", 10, 425),
      Message(TRUE, "create", "", "FOO", "Foo", "ipfs://abc123", 10, 425) }
    \cup { IF m = "m1"
           THEN Message(TRUE, "create", m, "FOO", "Foo", "ipfs://abc123", 10, 425)
           ELSE Message(TRUE, "create", m, Undefined, Undefined, Undefined, NoNumber, NoNumber)
           : m \in Mints }

\* the test without && message.mint
IsCreateAnyMint(msg) == msg.json /\ msg.txType = "create"

\* message.txType === 'create' && message.mint
IsCreate(msg) == msg.json /\ msg.txType = "create" /\ Truthy(msg.mint)

\* the frames that pass the test
Creates == { msg \in Messages : IsCreate(msg) }

\* the token with the two conversion constants the wrong way round
StreamTokenSwapped(msg, t) ==
    Token(msg.mint,
          OrElse(msg.symbol, "UNKNOWN"),
          OrElse(msg.name, "Unknown Token"),
          "https://pump.fun/coin/" \o msg.mint \o "/image",
          1,
          IF TruthyNum(msg.marketCapSol) THEN msg.marketCapSol * 85 ELSE 0,
          IF TruthyNum(msg.vSolInBondingCurve)
              THEN (msg.vSolInBondingCurve * 100) \div (185 * 10) ELSE 0,
          t, t)

\* const token: Token = {...} of the message handler, with Date.now() = t
StreamToken(msg, t) ==
    Token(msg.mint,
          OrElse(msg.symbol, "UNKNOWN"),
          OrElse(msg.name, "Unknown Token"),
          "https://pump.fun/coin/" \o msg.mint \o "/image",
          1,
          IF TruthyNum(msg.marketCapSol) THEN msg.marketCapSol * 185 ELSE 0,
          IF TruthyNum(msg.vSolInBondingCurve)
              THEN (msg.vSolInBondingCurve * 100) \div (85 * 10) ELSE 0,
          t, t)

\* the handler awaiting the metadata fetch before it stores the entry
OnMessageAwaitsImage(msg) ==
    /\ wsState = "OPEN"
    /\ IF IsCreate(msg)
       THEN LET token == StreamToken(msg, now)
                new == IF Truthy(msg.uri) THEN tokens ELSE addToken(tokens, token)
                issued == IF Truthy(msg.uri)
                          THEN {[address |-> token.address, stale |-> FALSE]} ELSE {}
            IN  /\ tokens' = new
                /\ recent' = IF Truthy(msg.uri) THEN recent ELSE NoteAll(recent, <<token>>)
                /\ pending' = Restale(pending, {}, new) \cup issued
                /\ Cardinality(pending') <= MaxInFlight
       ELSE UNCHANGED <<tokens, recent, pending>>
    /\ resp' = NoResp
    /\ dropped' = ~IsCreate(msg)
    /\ UNCHANGED <<now, polling, connVars>>

\* ws.on('message', ...) of the README revision
OnMessage(msg) ==
    /\ wsState = "OPEN"
    /\ IF IsCreate(msg)
       THEN LET token == StreamToken(msg, now)
                new == addToken(tokens, token)
                issued == IF Truthy(msg.uri)
                          THEN {[address |-> token.address, stale |-> FALSE]} ELSE {}
            IN  /\ tokens' = new
                /\ recent' = NoteAll(recent, <<token>>)
                /\ pending' = Restale(pending, {token.address}, new) \cup issued
                /\ Cardinality(pending') <= MaxInFlight
       ELSE UNCHANGED <<tokens, recent, pending>>
    /\ resp' = NoResp
    /\ dropped' = ~IsCreate(msg)
    /\ UNCHANGED <<now, polling, connVars>>

\* --------------------------------------------------- the image enrichment
\* what the GET of the metadata URL comes to: it throws or times out, answers
\* with a non-success status, or answers with JSON whose image field is
\* absent, an ipfs:// URI (prefix "ipfs://") or any other string (prefix "")
MetaOutcome(kind, prefix, rest) == [kind |-> kind, prefix |-> prefix, rest |-> rest]
MetaOutcomes ==
    { MetaOutcome("throw", "", ""), MetaOutcome("notOk", "", ""),
      MetaOutcome("ok", "", ""),
      MetaOutcome("ok", "ipfs://", "img1") }

\* async function fetchImageFromMetadata(metadataUrl)
fetchImageFromMetadata(o) ==
    IF o.kind /= "ok" THEN Undefined
    ELSE LET image == o.prefix \o o.rest
         IN  IF Truthy(image)
             THEN IF o.prefix = "ipfs://" THEN "https://ipfs.io/ipfs/" \o o.rest ELSE image
             ELSE Undefined

\* tokens.findIndex((t) => t.address === a), 0 for -1
FindIndex(s, a) ==
    IF HasId(s, a)
    THEN CHOOSE i \in DOMAIN s : s[i].address = a /\ \A j \in 1..(i - 1) : s[j].address /= a
    ELSE 0

\* the callback patching the front entry whatever its id
PatchImageFront(s, a, imageUrl) ==
    IF Truthy(imageUrl) /\ s /= <<>> THEN [s EXCEPT ![1].logo = imageUrl] ELSE s

\* the callback moving the patched entry to the front
PatchImageToFront(s, a, imageUrl) ==
    IF Truthy(imageUrl)
    THEN LET idx == FindIndex(s, a)
         IN  IF idx /= 0
             THEN <<[s[idx] EXCEPT !.logo = imageUrl]>>
                      \o SelectSeq(s, LAMBDA x : x.address /= a)
             ELSE s
    ELSE s

\* the .then callback of the enrichment: if (imageUrl) { idx = ...; if (idx !== -1) ... }
PatchImage(s, a, imageUrl) ==
    IF Truthy(imageUrl)
    THEN LET idx == FindIndex(s, a)
         IN  IF idx /= 0 THEN [s EXCEPT ![idx].logo = imageUrl] ELSE s
    ELSE s

\* the metadata fetches there can be
Fetches == [address : Mints, stale : BOOLEAN]

\* fetchImageFromMetadata(metadataUrl).then(...) completes for the fetch p
EnrichDone(p, o) ==
    /\ p \in pending
    /\ tokens' = PatchImage(tokens, p.address, fetchImageFromMetadata(o))
    /\ pending' = pending \ {p}
    /\ resp' = NoResp
    /\ dropped' = FALSE
    /\ UNCHANGED <<now, recent, polling, connVars>>

\* -------------------------------------------------------------- the poller
Item(tokenAddress, address, symbol, logo, marketCapUsd) ==
    [tokenAddress |-> tokenAddress, address |-> address, symbol |-> symbol,
     name |-> Undefined, logo |-> logo, image |-> Undefined,
     priceUsd |-> NoNumber, price |-> NoNumber,
     marketCapUsd |-> marketCapUsd, marketCap |-> NoNumber, createdAt |-> NoNumber]

\* items of a Moralis response: m1 under the primary field name, m2 under the
\* alternate name, and an item with neither field
Items ==
    { Item("m1", Undefined, "BAR", "https://logo.example/a.png", 5),
      Item(Undefined, "m2", Undefined, Undefined, NoNumber),
      Item(Undefined, Undefined, Undefined, Undefined, NoNumber) }

\* the sequences of at most n different elements of S (an item that comes
\* twice in a response is upserted twice, which leaves what its last upsert
\* alone leaves)
RECURSIVE SeqsUpTo(_, _)
SeqsUpTo(S, n) ==
    IF n = 0 THEN {<<>>}
    ELSE LET shorter == SeqsUpTo(S, n - 1)
             longer == { Append(q, x) : q \in shorter, x \in S }
         IN  shorter \cup { q \in longer : \A i, j \in DOMAIN q : i /= j => q[i] /= q[j] }

\* what the GET of the Moralis endpoint comes to
PollOutcome(kind, result) == [kind |-> kind, result |-> result]
PollOutcomes ==
    { PollOutcome(k, <<>>) : k \in {"throw", "notOk", "badJson", "noResult"} }
    \cup { PollOutcome("ok", b) : b \in SeqsUpTo(Items, MaxBatch) }

\* parseFloat(String(a || b || '0'))
ParseFloatOr0(a, b) == IF TruthyNum(a) THEN a ELSE IF TruthyNum(b) THEN b ELSE 0

\* const token: Token = {...} of fetchFromMoralis, with Date.now() = t
MoralisToken(item, t) ==
    Token(OrElse(item.tokenAddress, item.address),
          OrElse(item.symbol, "UNKNOWN"),
          OrElse(item.name, "Unknown"),
          OrElse(item.logo, item.image),
          ParseFloatOr0(item.priceUsd, item.price),
          ParseFloatOr0(item.marketCapUsd, item.marketCap),
          NoNumber,
          IF item.createdAt /= NoNumber THEN item.createdAt ELSE t,
          t)

\* the tokens built by the loop over data.result.slice(0, 30)
MoralisTokens(o, t) ==
    IF o.kind = "ok"
    THEN LET items == Slice0(o.result, 30)
         IN  [i \in DOMAIN items |-> MoralisToken(items[i], t)]
    ELSE <<>>

\* the cycles that end in the catch block or at if (!response.ok) return
PollFailed(o) == o.kind \in {"throw", "notOk", "badJson"}

\* fetchFromMoralis without its try/catch: a throwing fetch() or
\* response.json() rejects the promise it returns
PollRejectsUncaught(o) == o.kind \in {"throw", "badJson"}

\* whether the promise fetchFromMoralis() returns is rejected: its whole body
\* is inside try { ... } catch (err) { console.error(...) }
PollRejects(o) == FALSE

\* the cycles that reach if (data.result && Array.isArray(data.result))
PollAnswers == { o \in PollOutcomes : ~PollFailed(o) }

\* async function fetchFromMoralis(), called at startup and by
\* setInterval(fetchFromMoralis, 30000): it reads and writes the store only
\* after its awaits, when the GET has come to o.  Nothing clears the interval
\* timer; a rejection of the promise, which nothing handles, would end the
\* process and the timer with it.
fetchFromMoralis(o) ==
    /\ polling
    /\ LET toks == MoralisTokens(o, now)
           new == AddAll(tokens, toks)
       IN  /\ tokens' = new
           /\ recent' = NoteAll(recent, toks)
           /\ pending' = Restale(pending, {toks[i].address : i \in DOMAIN toks}, new)
    /\ polling' = ~PollRejects(o)
    /\ resp' = NoResp
    /\ dropped' = PollFailed(o)
    /\ UNCHANGED <<now, connVars>>

\* --------------------------------------------------- the sweep and queries
\* setInterval(cleanupOldTokens, 60000) fires
Sweep ==
    /\ tokens' = cleanupOldTokens(tokens, now)
    /\ recent' = <<>>
    /\ pending' = Restale(pending, {}, tokens')
    /\ resp' = NoResp
    /\ dropped' = FALSE
    /\ UNCHANGED <<now, polling, connVars>>

\* the limit query parameter: absent, not a number, or an integer
LimitParam(kind, n) == [kind |-> kind, n |-> n]
LimitParams ==
    { LimitParam("absent", 0), LimitParam("text", 0) }
    \cup { LimitParam("int", n) : n \in {-1, 0, 1, 2, 200} }

\* Math.min(parseInt(req.query.limit as string) || 50, 100): parseInt gives NaN
\* for an absent or non-numeric parameter, and NaN and 0 are falsy
QueryLimit(q) ==
    LET parsed == IF q.kind = "int" /\ q.n /= 0 THEN q.n ELSE 50
    IN  Min(parsed, 100)

\* app.get('/api/pulse/tokens', ...)
Query(q) ==
    /\ tokens' = cleanupOldTokens(tokens, now)
    /\ recent' = <<>>
    /\ pending' = Restale(pending, {}, tokens')
    /\ resp' = [kind |-> "tokens",
                tokens |-> Slice0(tokens', QueryLimit(q)),
                count |-> Len(tokens'),
                wsConnected |-> (wsState = "OPEN")]
    /\ dropped' = FALSE
    /\ UNCHANGED <<now, polling, connVars>>

\* app.get('/health', ...) answering with ws !== null in place of the readyState
HealthNonNull ==
    /\ resp' = [kind |-> "health",
                status |-> "ok",
                wsConnected |-> (wsState /= "null"),
                tokenCount |-> Len(tokens)]
    /\ dropped' = FALSE
    /\ UNCHANGED <<now, storeVars, connVars>>

\* app.get('/health', ...)
Health ==
    /\ resp' = [kind |-> "health",
                status |-> "ok",
                wsConnected |-> (wsState = "OPEN"),
                tokenCount |-> Len(tokens)]
    /\ dropped' = FALSE
    /\ UNCHANGED <<now, storeVars, connVars>>

\* ------------------------------------------------- the store specification
\* the state once the socket has opened, before any frame has arrived
InitStore ==
    /\ tokens = <<>>
    /\ now = 0
    /\ wsState = "OPEN"
    /\ reconnectAttempts = 0
    /\ timers = <<>>
    /\ pending = {}
    /\ resp = NoResp
    /\ dropped = FALSE
    /\ polling = TRUE
    /\ recent = <<>>
    /\ closes = 0
    /\ scheduled = 0
    /\ opens = 1
    /\ sent = 1

\* the inputs here are the ones the handlers take up: the create frames and
\* the poll cycles that reach the test of data.result.  The frames the handler
\* discards and the poll cycles that fail, which leave every variable of the
\* program as it is, are inputs of the feed and poller specifications.
NextStore ==
    \/ Tick
    \/ \E msg \in Creates : OnMessage(msg)
    \/ \E p \in Fetches, o \in MetaOutcomes : EnrichDone(p, o)
    \/ \E o \in PollAnswers : fetchFromMoralis(o)
    \/ Sweep
    \/ \E q \in LimitParams : Query(q)

SpecStore == InitStore /\ [][NextStore]_vars

\* ----------------------------------------------------------- the connector
\* the reconnect scheduled with setInterval in place of setTimeout
ConnectRepeating ==
    /\ timers /= <<>>
    /\ Head(timers) <= now
    /\ timers' = Append(Tail(timers), Head(timers) + RECONNECT_DELAY)
    /\ wsState' = "CONNECTING"
    /\ sent' = 0
    /\ resp' = NoResp
    /\ dropped' = FALSE
    /\ UNCHANGED <<now, storeVars, reconnectAttempts, closes, scheduled, opens>>

\* a reconnect timer expires: connectToPumpPortal() creates the socket
Connect ==
    /\ timers /= <<>>
    /\ Head(timers) <= now
    /\ timers' = Tail(timers)
    /\ wsState' = "CONNECTING"
    /\ sent' = 0
    /\ resp' = NoResp
    /\ dropped' = FALSE
    /\ UNCHANGED <<now, storeVars, reconnectAttempts, closes, scheduled, opens>>

\* time passes until the earliest reconnect timer is due
TimerWait ==
    /\ timers /= <<>>
    /\ now < Head(timers)
    /\ now' = Head(timers)
    /\ resp' = NoResp
    /\ dropped' = FALSE
    /\ UNCHANGED <<storeVars, connVars>>

\* the frames ws?.send(...) puts on the wire: one on an open socket, none when
\* ws is null
Frames(st) == IF st = "OPEN" THEN 1 ELSE 0

\* the open handler without the ws?.send(...)
OnOpenNoSend ==
    /\ wsState = "CONNECTING"
    /\ opens < MaxOpens
    /\ wsState' = "OPEN"
    /\ reconnectAttempts' = 0
    /\ closes' = 0
    /\ scheduled' = 0
    /\ opens' = opens + 1
    /\ resp' = NoResp
    /\ dropped' = FALSE
    /\ UNCHANGED <<now, storeVars, timers, sent>>

\* the open handler without reconnectAttempts = 0
OnOpenNoReset ==
    /\ wsState = "CONNECTING"
    /\ opens < MaxOpens
    /\ wsState' = "OPEN"
    /\ sent' = sent + Frames(wsState')
    /\ closes' = 0
    /\ scheduled' = 0
    /\ opens' = opens + 1
    /\ resp' = NoResp
    /\ dropped' = FALSE
    /\ UNCHANGED <<now, storeVars, timers, reconnectAttempts>>

\* ws.on('open', ...)
OnOpen ==
    /\ wsState = "CONNECTING"
    /\ opens < MaxOpens
    /\ wsState' = "OPEN"
    /\ reconnectAttempts' = 0
    /\ sent' = sent + Frames(wsState')
    /\ closes' = 0
    /\ scheduled' = 0
    /\ opens' = opens + 1
    /\ resp' = NoResp
    /\ dropped' = FALSE
    /\ UNCHANGED <<now, storeVars, timers>>

\* the error handler doing what the close handler does
OnErrorReconnects ==
    /\ wsState \in {"CONNECTING", "OPEN"}
    /\ wsState' = "CLOSING"
    /\ IF reconnectAttempts < MAX_RECONNECT_ATTEMPTS
       THEN /\ reconnectAttempts' = reconnectAttempts + 1
            /\ timers' = Append(timers, now + RECONNECT_DELAY)
            /\ scheduled' = scheduled + 1
       ELSE UNCHANGED <<reconnectAttempts, timers, scheduled>>
    /\ resp' = NoResp
    /\ dropped' = FALSE
    /\ UNCHANGED <<now, storeVars, closes, opens, sent>>

\* ws.on('error', ...): the handler only logs; the socket that reports an
\* error is on its way to closed and its close event follows
OnError ==
    /\ wsState \in {"CONNECTING", "OPEN"}
    /\ wsState' = "CLOSING"
    /\ resp' = NoResp
    /\ dropped' = FALSE
    /\ UNCHANGED <<now, storeVars, reconnectAttempts, timers, closes, scheduled, opens, sent>>

\* the close handler with <= in place of <
OnCloseOffByOne ==
    /\ wsState \in {"OPEN", "CLOSING"}
    /\ wsState' = "null"
    /\ closes' = closes + 1
    /\ IF reconnectAttempts <= MAX_RECONNECT_ATTEMPTS
       THEN /\ reconnectAttempts' = reconnectAttempts + 1
            /\ timers' = Append(timers, now + RECONNECT_DELAY)
            /\ scheduled' = scheduled + 1
       ELSE UNCHANGED <<reconnectAttempts, timers, scheduled>>
    /\ resp' = NoResp
    /\ dropped' = FALSE
    /\ UNCHANGED <<now, storeVars, opens, sent>>

\* ws.on('close', ...)
OnClose ==
    /\ wsState \in {"OPEN", "CLOSING"}
    /\ wsState' = "null"
    /\ closes' = closes + 1
    /\ IF reconnectAttempts < MAX_RECONNECT_ATTEMPTS
       THEN /\ reconnectAttempts' = reconnectAttempts + 1
            /\ timers' = Append(timers, now + RECONNECT_DELAY)
            /\ scheduled' = scheduled + 1
       ELSE UNCHANGED <<reconnectAttempts, timers, scheduled>>
    /\ resp' = NoResp
    /\ dropped' = FALSE
    /\ UNCHANGED <<now, storeVars, opens, sent>>

\* -------------------------------------------- the connector specification
\* the state after the app.listen callback: the first socket is connecting
InitConn ==
    /\ tokens = <<>>
    /\ now = 0
    /\ wsState = "CONNECTING"
    /\ reconnectAttempts = 0
    /\ timers = <<>>
    /\ pending = {}
    /\ resp = NoResp
    /\ dropped = FALSE
    /\ polling = TRUE
    /\ recent = <<>>
    /\ closes = 0
    /\ scheduled = 0
    /\ opens = 0
    /\ sent = 0

NextConn ==
    \/ Tick
    \/ Connect
    \/ TimerWait
    \/ OnOpen
    \/ OnError
    \/ OnClose

SpecConn == InitConn /\ [][NextConn]_vars

\* ------------------------------------------------- the feed specification
\* The life of one connection and what follows it when the feed stays down:
\* the socket is open and delivers frames of every kind, then it fails, and
\* every reconnect fails in its turn until the retry budget is spent.  The
\* liveness query is answered in every state on the way.
NextFeed ==
    \/ \E msg \in Messages : OnMessage(msg)
    \/ \E p \in Fetches, o \in MetaOutcomes : EnrichDone(p, o)
    \/ Health
    \/ OnError
    \/ OnClose
    \/ TimerWait
    \/ Connect

SpecFeed == InitStore /\ [][NextFeed]_vars

\* ----------------------------------------------- the poller specification
\* the poller alone on the store, with every outcome of its GET, the clock
\* and the periodic sweep
NextPoll ==
    \/ Tick
    \/ \E o \in PollOutcomes : fetchFromMoralis(o)
    \/ Sweep

SpecPoll == InitStore /\ [][NextPoll]_vars

\* ------------------------------------------------------------ properties
Max(a, b) == IF a > b THEN a ELSE b

\* every entry of sub is an entry of s, and sub keeps the order they have in s
\* (the ids of s are distinct, so an entry has one position in s)
KeepsOrderOf(sub, s) ==
    /\ \A i \in DOMAIN sub : \E k \in DOMAIN s : s[k] = sub[i]
    /\ \A i, j \in DOMAIN sub :
           i < j => \E k, l \in DOMAIN s : k < l /\ s[k] = sub[i] /\ s[l] = sub[j]

IsPrefix(pre, s) ==
    /\ Len(pre) <= Len(s)
    /\ \A i \in DOMAIN pre : pre[i] = s[i]

\* C1: in every reachable state the store holds at most one entry per id.
C1_OneEntryPerId ==
    \A i, j \in DOMAIN tokens : i /= j => tokens[i].address /= tokens[j].address

\* a full store holding an id whose first entry was replaced or removed while
\* its metadata fetch was in flight, and which was upserted again
C1_Witness ==
    /\ Len(tokens) = MAX_TOKENS
    /\ \E p \in pending : p.stale /\ HasId(tokens, p.address)

\* C2: in every reachable state the number of stored entries is at most the
\* capacity MAX_TOKENS.
C2_AtMostCapacity == Len(tokens) <= MAX_TOKENS

\* a full store after more distinct ids than the capacity were upserted
C2_Witness ==
    /\ Len(tokens) = MAX_TOKENS
    /\ Len(recent) > MAX_TOKENS
    /\ tokens[1].address = Undefined

\* what one upsert of e establishes
UpsertPost(old, new, e) ==
    /\ new /= <<>>
    /\ new[1] = e
    /\ \A i \in 2..Len(new) : new[i].address /= e.address
    /\ KeepsOrderOf(Tail(new), old)

\* the entries the stream handler and the poller can upsert at time t
Upsertable(t) ==
    { StreamToken(msg, t) : msg \in { m \in Messages : IsCreate(m) } }
    \cup { MoralisToken(item, t) : item \in Items }

\* C3: immediately after an upsert of e in any state, by the stream handler or
\* by the poller, the front entry is e with e's payload, no other entry has
\* e's id and the other entries keep their relative order; a create frame
\* received leaves its entry at the front.
C3_UpsertToFront ==
    /\ [](\A e \in Upsertable(now) : UpsertPost(tokens, addToken(tokens, e), e))
    /\ [][ \A msg \in Messages :
               IsCreate(msg) /\ OnMessage(msg)
                   => UpsertPost(tokens, tokens', StreamToken(msg, now))
         ]_vars

\* the poller's entry for m1 at the front, over the stream's entry for m1
\* whose metadata fetch is still in flight, another entry behind it
C3_Witness ==
    /\ Len(tokens) = 2
    /\ tokens[1].address = "m1"
    /\ tokens[1].symbol = "BAR"
    /\ [address |-> "m1", stale |-> TRUE] \in pending

\* C4: once more than MAX_TOKENS distinct ids have been upserted since the
\* last sweep, the store holds exactly the MAX_TOKENS most recently upserted
\* ids, most recently upserted first.
C4_MostRecentIds ==
    Len(recent) > MAX_TOKENS => Ids(tokens) = Slice0(recent, MAX_TOKENS)

\* overflow with entries observed at different times in the store
C4_Witness ==
    /\ Len(recent) > MAX_TOKENS
    /\ tokens[1].fetchedAt > tokens[Len(tokens)].fetchedAt

\* C5: immediately after a sweep, periodic or at the start of the recency
\* query, no entry older than the window remains, and the query returns none.
C5_NoneOlderThanWindow ==
    [][ (Sweep \/ \E q \in LimitParams : Query(q))
            => /\ \A i \in DOMAIN tokens' : tokens'[i].fetchedAt >= now - MAX_AGE_MS
               /\ resp'.kind = "tokens"
                      => \A i \in DOMAIN resp'.tokens :
                             resp'.tokens[i].fetchedAt >= now - MAX_AGE_MS
      ]_vars

\* a query answered after the window has passed, that swept the entry a
\* metadata fetch was issued for and returned a younger one
C5_Witness ==
    /\ resp.kind = "tokens"
    /\ now > MAX_AGE_MS
    /\ Len(resp.tokens) = 1
    /\ \E p \in pending : p.stale /\ ~HasId(tokens, p.address)

SweepStep == Sweep \/ \E q \in LimitParams : Query(q)

\* C6 as stated: a sweep keeps every entry with fetchedAt >= now - MAX_AGE_MS,
\* unmodified and in order.
C6_KeepsBoundaryEntry ==
    [][ SweepStep
            => LET kept == SelectSeq(tokens, LAMBDA t : t.fetchedAt >= now - MAX_AGE_MS)
               IN  /\ \A i \in DOMAIN kept : \E k \in DOMAIN tokens' : tokens'[k] = kept[i]
                   /\ KeepsOrderOf(kept, tokens')
      ]_vars

\* C6, amended: a sweep keeps every entry with fetchedAt > now - MAX_AGE_MS,
\* unmodified and in order, and nothing else: the entry whose fetchedAt equals
\* now - MAX_AGE_MS is removed.
C6_KeepsYoungerEntries ==
    [][ SweepStep
            => /\ \A i \in DOMAIN tokens :
                      tokens[i].fetchedAt > now - MAX_AGE_MS
                          => \E k \in DOMAIN tokens' : tokens'[k] = tokens[i]
               /\ KeepsOrderOf(tokens', tokens)
               /\ \A k \in DOMAIN tokens' : tokens'[k].fetchedAt /= now - MAX_AGE_MS
      ]_vars

\* just swept, a window after time 1: the entry a metadata fetch was issued
\* for is gone and the entry upserted since is kept
C6_Witness ==
    /\ now = MAX_AGE_MS + 1
    /\ recent = <<>>
    /\ Len(tokens) = 1
    /\ tokens[1].fetchedAt = now
    /\ \E p \in pending : p.stale /\ ~HasId(tokens, p.address)

\* the limit the caller asked for: the integer passed, 50 when absent
AskedLimit(q) == IF q.kind = "int" THEN q.n ELSE 50

\* C7 as stated: for every integer limit, 0 and negative ones included, the
\* returned entries are a prefix of the swept store of at most limit (no entry
\* for a limit below 1) and at most 100 entries, and count is the store's size.
C7_PrefixOfAtMostLimit ==
    [][ \A q \in LimitParams :
            Query(q) /\ q.kind /= "text"
                => /\ IsPrefix(resp'.tokens, tokens')
                   /\ Len(resp'.tokens) <= Max(AskedLimit(q), 0)
                   /\ Len(resp'.tokens) <= 100
                   /\ resp'.count = Len(tokens')
      ]_vars

\* C8 as stated: a completed metadata fetch changes nothing in the store when
\* the entry it was issued for has been evicted, swept or replaced.
C8_StalePatchChangesNothing ==
    [][ \A p \in pending, o \in MetaOutcomes :
            EnrichDone(p, o) /\ p.stale => tokens' = tokens
      ]_vars

\* C8, amended: a completed metadata fetch changes nothing in the store when
\* no entry with its id is in the store; when an entry with its id is there,
\* the entry it was issued for or a replacement, a resolved image becomes that
\* entry's logo.
C8_PatchOnlyByIdPresent ==
    [][ \A p \in pending, o \in MetaOutcomes :
            EnrichDone(p, o)
                => /\ ~HasId(tokens, p.address) => tokens' = tokens
                   /\ HasId(tokens, p.address) /\ Truthy(fetchImageFromMetadata(o))
                          => \E i \in DOMAIN tokens' :
                                 /\ tokens'[i].address = p.address
                                 /\ tokens'[i].logo = fetchImageFromMetadata(o)
      ]_vars

\* the poller's entry for m1, which replaced the stream's, carries the image
\* the metadata fetch resolved
C8_Witness ==
    \E i \in DOMAIN tokens :
        /\ tokens[i].address = "m1"
        /\ tokens[i].symbol = "BAR"
        /\ tokens[i].logo = "https://ipfs.io/ipfs/img1"

\* t with its logo left out
SansLogo(t) == [f \in DOMAIN t \ {"logo"} |-> t[f]]

\* C9: a completed metadata fetch leaves the size of the store, the order of
\* its ids and every field but the logo of the entry with its id unchanged,
\* and the whole store when no entry has its id.
C9_PatchFrame ==
    [][ \A p \in pending, o \in MetaOutcomes :
            EnrichDone(p, o)
                => /\ Len(tokens') = Len(tokens)
                   /\ Ids(tokens') = Ids(tokens)
                   /\ \A i \in DOMAIN tokens :
                          /\ SansLogo(tokens'[i]) = SansLogo(tokens[i])
                          /\ tokens[i].address /= p.address => tokens'[i] = tokens[i]
                   /\ ~HasId(tokens, p.address) => tokens' = tokens
      ]_vars

\* the stream's entry for m1 carries the resolved image and is still behind
\* the entry upserted after it
C9_Witness ==
    /\ Len(tokens) = 2
    /\ tokens[2].address = "m1"
    /\ tokens[2].symbol = "FOO"
    /\ tokens[2].logo = "https://ipfs.io/ipfs/img1"

\* C10: with the retry counter at zero after construction or an open, N close
\* events without an open in between schedule min(N, 10) reconnects, each
\* 5000 ms after its close event, and after the close that follows the 10th
\* nothing is scheduled any more: no socket, no timer, for ever.
C10_BoundedReconnects ==
    /\ [](scheduled = Min(closes, 10))
    /\ [][ scheduled' > scheduled
               => /\ OnClose
                  /\ timers' = Append(timers, now + 5000) ]_vars
    /\ [][ closes > 10 => wsState' = "null" /\ timers' = <<>> /\ closes' = closes ]_vars

\* the close event that follows the 10th reconnect has been handled
C10_Witness ==
    /\ closes = 11
    /\ scheduled = 10
    /\ wsState = "null"
    /\ timers = <<>>

\* what the close handler does to the connector
CloseEffect ==
    /\ wsState' = "null"
    /\ IF reconnectAttempts < 10
       THEN /\ reconnectAttempts' = reconnectAttempts + 1
            /\ timers' = Append(timers, now + 5000)
       ELSE UNCHANGED <<reconnectAttempts, timers>>

\* C11 as stated: an error event, like a close event, takes the connector to
\* Disconnected and, with the retry counter below 10, increments the counter
\* and schedules a connect after the fixed delay.
C11_ErrorReconnects ==
    [][ (OnError \/ OnClose) => CloseEffect ]_vars

\* C11, amended: an error event by itself leaves the socket reference, the
\* retry counter and the timers as they are; it is the close event that takes
\* the connector to Disconnected and, with the retry counter below 10,
\* increments the counter and schedules a connect after the fixed delay.
C11_OnlyCloseReconnects ==
    /\ [][ OnError => /\ wsState' /= "null"
                      /\ UNCHANGED <<reconnectAttempts, timers, scheduled>> ]_vars
    /\ [][ OnClose => CloseEffect ]_vars
    /\ [][ wsState /= "null" /\ wsState' = "null" => OnClose ]_vars

\* the first socket failed before it opened: its error event and then its
\* close event were handled, and the close scheduled the first reconnect
C11_Witness ==
    /\ opens = 0
    /\ closes = 1
    /\ wsState = "null"
    /\ reconnectAttempts = 1
    /\ Len(timers) = 1

\* C12: every open event resets the retry counter to zero and sends exactly
\* one subscription frame on the socket that opened; a subscription frame is
\* sent in no other step, so never on a socket that is not open.
C12_OpenResetsAndSubscribes ==
    /\ [](/\ sent <= 1
          /\ wsState = "OPEN" => sent = 1 /\ reconnectAttempts = 0
          /\ wsState = "CONNECTING" => sent = 0)
    /\ [][ OnOpen => /\ wsState' = "OPEN"
                     /\ reconnectAttempts' = 0
                     /\ sent = 0 /\ sent' = 1 ]_vars
    /\ [][ sent' > sent => OnOpen /\ wsState' = "OPEN" ]_vars

\* the second connection is open, with the counter back at zero and its own
\* subscription sent
C12_Witness ==
    /\ opens = 2
    /\ wsState = "OPEN"
    /\ sent = 1
    /\ reconnectAttempts = 0

\* the sockets that are connecting or open, and the pending reconnect timers
Live == (IF wsState \in {"CONNECTING", "OPEN"} THEN 1 ELSE 0) + Len(timers)

\* C18: in every reachable state there is at most one socket that is
\* connecting or open or one pending reconnect timer, never both and never
\* two of either: a connect runs only when no socket exists and takes the only
\* timer, and a close event leaves at most one timer and no socket.
C18_OneSocketOrTimer ==
    /\ [](Live <= 1)
    /\ [][ Connect => wsState = "null" /\ timers' = <<>> ]_vars
    /\ [][ OnClose => wsState' = "null" /\ Len(timers') <= 1 ]_vars

\* the reconnect timer of the close of a connection that had opened is the
\* only thing alive
C18_Witness ==
    /\ opens = 1
    /\ closes = 1
    /\ wsState = "null"
    /\ Len(timers) = 1
    /\ Live = 1

\* C20: the retry counter stays between 0 and 10; the close of a connection
\* that had opened finds the counter at zero and schedules a reconnect; and
\* the terminal state (no socket, no timer) is reached only by more than 10
\* closes without an open in between.
C20_BudgetIsConsecutive ==
    /\ [](reconnectAttempts \in 0..10)
    /\ [](wsState = "null" /\ timers = <<>> => closes > 10)
    /\ [][ OnClose /\ opens > 0 /\ closes = 0
               => /\ reconnectAttempts = 0
                  /\ reconnectAttempts' = 1
                  /\ timers' = <<now + 5000>> ]_vars

\* the second connection that opened has closed in its turn, and its
\* reconnect is scheduled with the counter at 1
C20_Witness ==
    /\ opens = 2
    /\ closes = 1
    /\ reconnectAttempts = 1
    /\ wsState = "null"
    /\ Len(timers) = 1

\* a frame that is not JSON, or whose txType is not "create", or whose mint is
\* missing or empty
Discardable(msg) ==
    \/ ~msg.json
    \/ msg.txType /= "create"
    \/ msg.mint = Undefined
    \/ msg.mint = ""

\* C13: a frame that is malformed, or whose txType is not "create", or whose
\* mint is missing or empty, leaves the store and every other variable of the
\* program unchanged, and the create frame that comes next is upserted as any
\* create frame is.
C13_DiscardedFrameChangesNothing ==
    /\ [][ \A msg \in Messages :
               OnMessage(msg) /\ Discardable(msg)
                   => UNCHANGED <<tokens, pending, recent, now, connVars>> ]_vars
    /\ [][ \A msg \in Messages :
               dropped /\ OnMessage(msg) /\ ~Discardable(msg)
                   => UpsertPost(tokens, tokens', StreamToken(msg, now)) ]_vars

\* a frame was discarded in this step, with an entry in the store and its
\* metadata fetch in flight
C13_Witness ==
    /\ dropped
    /\ Len(tokens) = 1
    /\ tokens[1].address = "m1"
    /\ pending = {[address |-> "m1", stale |-> FALSE]}

\* C16: the liveness query answers wsConnected = TRUE exactly when the socket
\* is open (FALSE while it is connecting, after its error event, while a
\* reconnect is waiting and when the retry budget is spent), answers
\* tokenCount = the number of stored entries, and changes nothing.
C16_HealthReportsState ==
    [][ Health
            => /\ resp'.wsConnected = (wsState = "OPEN")
               /\ wsState \in {"CONNECTING", "CLOSING", "null"} => ~resp'.wsConnected
               /\ resp'.tokenCount = Len(tokens)
               /\ UNCHANGED <<tokens, pending, recent, now, connVars>>
      ]_vars

\* the liveness query answered while a reconnect is under way, with two
\* entries in the store
C16_Witness ==
    /\ resp.kind = "health"
    /\ wsState = "CONNECTING"
    /\ resp.wsConnected = FALSE
    /\ resp.tokenCount = 2
    /\ Len(tokens) = 2

\* C14: a poll cycle that ends in a network failure, a non-success status or
\* a decode failure leaves the store and every other variable of the program
\* unchanged, and whatever a cycle came to, the interval timer stays armed and
\* the next cycle can run and upsert what it fetched.
C14_FailedCycleSkipped ==
    /\ [](polling)
    /\ [](ENABLED (\E o \in PollOutcomes : o.kind = "ok" /\ fetchFromMoralis(o)))
    /\ [][ \A o \in PollOutcomes :
               fetchFromMoralis(o) /\ o.kind \in {"throw", "notOk", "badJson"}
                   => UNCHANGED <<tokens, pending, recent, now, connVars>> ]_vars
    /\ [][ \A o \in PollOutcomes :
               fetchFromMoralis(o) /\ dropped /\ o.kind = "ok" /\ o.result /= <<>>
                   => tokens' /= <<>> /\ tokens'[1].fetchedAt = now ]_vars

\* a cycle failed in this step, after an earlier cycle had filled the store,
\* and the timer is still armed
C14_Witness ==
    /\ dropped
    /\ polling
    /\ Len(tokens) = 2
    /\ now > 0

\* C15: a create frame with a metadata URI has its base entry at the front of
\* the store in the step that handles the frame, with the metadata fetch only
\* issued; the entry stays while the fetch is in flight unless an upsert, the
\* capacity or the sweep takes it; and a fetch that throws, times out or gets
\* a non-success response leaves the store as it finds it.
C15_BaseEntryFirst ==
    /\ [](\A p \in pending : ~p.stale => HasId(tokens, p.address))
    /\ [][ \A msg \in Creates :
               OnMessage(msg) /\ msg.uri /= Undefined
                   => /\ tokens' /= <<>>
                      /\ tokens'[1] = StreamToken(msg, now)
                      /\ [address |-> msg.mint, stale |-> FALSE] \in pending' ]_vars
    /\ [][ \A p \in pending, o \in MetaOutcomes :
               EnrichDone(p, o) /\ o.kind \in {"throw", "notOk"}
                   => tokens' = tokens ]_vars

\* the entry of the create frame for m1 is behind a later entry, with the
\* placeholder logo it was stored with, and its metadata fetch is over
C15_Witness ==
    /\ pending = {}
    /\ Len(tokens) = 2
    /\ tokens[2].address = "m1"
    /\ tokens[2].symbol = "FOO"
    /\ tokens[2].logo = "https://pump.fun/coin/m1/image"

\* C17: the entry of a create frame has marketCap = marketCapSol * 185 and
\* bondingProgress = (vSolInBondingCurve / 85) * 100, each 0 when the field is
\* absent, and the symbol of the frame or "UNKNOWN" when it is absent;
\* marketCapSol 10, vSolInBondingCurve 42.5 and symbol FOO give 1850, 50 and
\* FOO.  (vSolInBondingCurve is in tenths: 425 stands for 42.5.)
C17_Conversions ==
    [][ \A msg \in Messages :
            OnMessage(msg) /\ ~Discardable(msg)
                => LET e == tokens'[1]
                       m == msg.marketCapSol
                       v == msg.vSolInBondingCurve
                   IN  /\ e.marketCap = (IF m = NoNumber THEN 0 ELSE m * 185)
                       /\ e.bondingProgress * 85 * 10 = (IF v = NoNumber THEN 0 ELSE v * 100)
                       /\ e.symbol = (IF msg.symbol = Undefined THEN "UNKNOWN" ELSE msg.symbol)
                       /\ m = 10 /\ v = 425 /\ msg.symbol = "FOO"
                              => /\ e.marketCap = 1850
                                 /\ e.bondingProgress = 50
                                 /\ e.symbol = "FOO"
      ]_vars

\* the entry of the frame with every field, and behind it the entry of a frame
\* with none of the optional fields
C17_Witness ==
    /\ Len(tokens) = 2
    /\ tokens[1].marketCap = 1850
    /\ tokens[1].bondingProgress = 50
    /\ tokens[1].symbol = "FOO"
    /\ tokens[2].marketCap = 0
    /\ tokens[2].bondingProgress = 0
    /\ tokens[2].symbol = "UNKNOWN"

\* C19 as stated: every entry in the store has a defined, non-empty id,
\* whether the stream handler or the poller upserted it.
C19_EveryIdDefined ==
    \A i \in DOMAIN tokens : tokens[i].address /= Undefined /\ tokens[i].address /= ""

====
